---- MODULE Spec2Model ----
(***************************************************************************)
(* Model of tui-widget-list's ListState (src/src/state.rs): the selection  *)
(* and navigation state machine of a list with collapsible child entries.  *)
(*                                                                         *)
(* Encoding of the Rust values:                                            *)
(*   Option<usize>                   <<>> (None)  or <<i>> (Some(i))       *)
(*   Option<(usize, Option<usize>)>  <<>> (None), <<i>> (Some((i, None)))  *)
(*                                   or <<i, j>> (Some((i, Some(j))))      *)
(*   Vec<usize>                      a sequence; Rust index i is TLA+      *)
(*                                   index i + 1                           *)
(***************************************************************************)
EXTENDS Naturals, Sequences, FiniteSets

VARIABLES
    selected,            \* ListState::selected
    num_elements,        \* ListState::num_elements (child count per main item)
    expanded,            \* ListState::expanded
    infinite_scrolling,  \* ListState::infinite_scrolling
    view_state,          \* ListState::view_state
    trace,               \* history: the operations applied (see each specification)
    start                \* history: the selection the run started from

state == <<selected, num_elements, expanded, infinite_scrolling, view_state>>
vars == <<selected, num_elements, expanded, infinite_scrolling, view_state, trace, start>>

----------------------------------------------------------------------------
(* Bounds of the explored inputs *)

\* main items / children per item of the tables a navigation run is given
MaxItems == 3
MaxChildren == 2
\* the same for the runs in which the table is replaced at any time
ReachItems == 2
ReachChildren == 1
\* the largest offset / truncation the rendering layer writes
MaxView == 1

----------------------------------------------------------------------------
(* Values *)

NoSelection == <<>>
Main(i) == <<i>>
Child(i, j) == <<i, j>>

\* Option<usize>::None
NoIndex == <<>>
Some(i) == <<i>>

RECURSIVE SeqsUpTo(_, _)
SeqsUpTo(S, n) ==
    IF n = 0 THEN {<<>>}
    ELSE LET shorter == SeqsUpTo(S, n - 1)
         IN  shorter \cup {Append(s, x) : s \in {t \in shorter : Len(t) = n - 1}, x \in S}

\* the child-count tables the owning widget may supply
Tables == SeqsUpTo(0..MaxChildren, MaxItems)
NonEmptyTables == Tables \ {<<>>}
ReachTables == SeqsUpTo(0..ReachChildren, ReachItems)

\* the index arguments tried: one past the largest table, so out of range too
ReachIndices == 0..ReachItems

\* the vectors expand_selected can build of the indices below n, in ascending order
RECURSIVE Ascending(_)
Ascending(n) ==
    IF n = 0 THEN {<<>>}
    ELSE Ascending(n - 1) \cup {Append(s, n - 1) : s \in Ascending(n - 1)}

\* the selections that point at a main item of the table ne, or at a child of
\* one of its expanded main items
ValidSelections(ne, ex) ==
    {Main(i) : i \in 0..(Len(ne) - 1)}
        \cup UNION {{Child(i, j) : j \in 0..(ne[i + 1] - 1)} :
                        i \in {k \in 0..(Len(ne) - 1) : \E m \in 1..Len(ex) : ex[m] = k}}

ViewState(offset, first_truncated) ==
    [offset |-> offset, first_truncated |-> first_truncated]

\* what the rendering layer may have written back after a frame
ViewStates == {ViewState(o, t) : o \in {0, MaxView}, t \in {0, MaxView}}

----------------------------------------------------------------------------
(* Pure functions of src/src/state.rs *)

saturating_sub(a, b) == IF a >= b THEN a - b ELSE 0

is_expandedIn(ex, index) == \E k \in 1..Len(ex) : ex[k] = index

is_expanded(index) == is_expandedIn(expanded, index)

is_selected(index) == selected # NoSelection /\ selected[1] = index

get_selected_child(index) ==
    IF selected # NoSelection /\ selected[1] = index /\ Len(selected) = 2
    THEN Some(selected[2])
    ELSE NoIndex

\* expanded.retain(|&x| x != index)
retain_other(ex, index) == LET keep(x) == x # index IN SelectSeq(ex, keep)

\* expanded.retain(|&x| x < len)
retain_below(ex, len) == LET keep(x) == x < len IN SelectSeq(ex, keep)

\* 0..n pushed one by one onto an empty vector
RECURSIVE range(_)
range(n) == IF n = 0 THEN <<>> ELSE Append(range(n - 1), n - 1)

\* next_main_item with the clamp test off by one (> for >=)
next_main_item_off_by_one(index, n, infinite) ==
    IF index > n - 1
    THEN IF infinite THEN Main(0) ELSE Main(index)
    ELSE Main(index + 1)

\* next_main_item that wraps whatever the flag says
next_main_item_always_wraps(index, n, infinite) ==
    IF index >= n - 1 THEN Main(0) ELSE Main(index + 1)

next_main_item(index, n, infinite) ==
    IF index >= n - 1
    THEN IF infinite THEN Main(0) ELSE Main(index)
    ELSE Main(index + 1)

\* next_selection with the last-child test off by one (> for >=)
next_selection_past_last_child(sel, ne, ex, infinite) ==
    IF sel = NoSelection THEN Main(0)
    ELSE LET i == sel[1] IN
         IF i < Len(ne)
         THEN IF is_expandedIn(ex, i)
              THEN IF Len(sel) = 1
                   THEN Child(i, 0)
                   ELSE IF sel[2] > saturating_sub(ne[i + 1], 1)
                        THEN next_main_item(i, Len(ne), infinite)
                        ELSE Child(i, sel[2] + 1)
              ELSE next_main_item(i, Len(ne), infinite)
         ELSE next_main_item(i, Len(ne), infinite)

\* the value of `let i = match self.selected { .. }` in next()
next_selection(sel, ne, ex, infinite) ==
    IF sel = NoSelection THEN Main(0)
    ELSE LET i == sel[1] IN
         IF i < Len(ne)
         THEN IF is_expandedIn(ex, i)
              THEN IF Len(sel) = 1
                   THEN Child(i, 0)
                   ELSE IF sel[2] >= saturating_sub(ne[i + 1], 1)
                        THEN next_main_item(i, Len(ne), infinite)
                        ELSE Child(i, sel[2] + 1)
              ELSE next_main_item(i, Len(ne), infinite)
         ELSE next_main_item(i, Len(ne), infinite)

\* prev_main_item that never enters the children of the item it lands on
prev_main_item_no_child(index, ne, ex, infinite) ==
    IF index = 0 /\ ~infinite THEN Main(index)
    ELSE Main(IF index = 0 THEN saturating_sub(Len(ne), 1) ELSE index - 1)

\* prev_main_item without the clamp at index 0
prev_main_item_no_clamp(index, ne, ex, infinite) ==
    LET prev_index == IF index = 0 THEN saturating_sub(Len(ne), 1) ELSE index - 1 IN
    IF is_expandedIn(ex, prev_index) /\ prev_index < Len(ne) /\ ne[prev_index + 1] # 0
    THEN Child(prev_index, ne[prev_index + 1] - 1)
    ELSE Main(prev_index)

\* prev_main_item that enters an expanded item at its first child
prev_main_item_first_child(index, ne, ex, infinite) ==
    IF index = 0 /\ ~infinite THEN Main(index)
    ELSE LET prev_index == IF index = 0 THEN saturating_sub(Len(ne), 1) ELSE index - 1 IN
         IF is_expandedIn(ex, prev_index) /\ prev_index < Len(ne) /\ ne[prev_index + 1] # 0
         THEN Child(prev_index, 0)
         ELSE Main(prev_index)

prev_main_item(index, ne, ex, infinite) ==
    IF index = 0 /\ ~infinite THEN Main(index)
    ELSE LET prev_index == IF index = 0 THEN saturating_sub(Len(ne), 1) ELSE index - 1 IN
         IF is_expandedIn(ex, prev_index)
         THEN IF prev_index < Len(ne)
              THEN IF ne[prev_index + 1] = 0
                   THEN Main(prev_index)
                   ELSE Child(prev_index, ne[prev_index + 1] - 1)
              ELSE Main(prev_index)
         ELSE Main(prev_index)

\* previous_selection that leaves child 0 for the previous main item, skipping
\* the item's own main entry
previous_selection_skips_main(sel, ne, ex, infinite) ==
    IF sel = NoSelection THEN Main(0)
    ELSE LET i == sel[1] IN
         IF i < Len(ne) /\ Len(sel) = 2 /\ sel[2] # 0
         THEN Child(i, sel[2] - 1)
         ELSE prev_main_item(i, ne, ex, infinite)

\* previous_selection that starts at the last main item when nothing is selected
previous_selection_from_last(sel, ne, ex, infinite) ==
    IF sel = NoSelection THEN Main(saturating_sub(Len(ne), 1))
    ELSE LET i == sel[1] IN
         IF i < Len(ne)
         THEN IF Len(sel) = 2
              THEN IF sel[2] = 0 THEN Main(i) ELSE Child(i, sel[2] - 1)
              ELSE prev_main_item(i, ne, ex, infinite)
         ELSE prev_main_item(i, ne, ex, infinite)

\* the value of `let i = match self.selected { .. }` in previous()
previous_selection(sel, ne, ex, infinite) ==
    IF sel = NoSelection THEN Main(0)
    ELSE LET i == sel[1] IN
         IF i < Len(ne)
         THEN IF Len(sel) = 2
              THEN IF sel[2] = 0 THEN Main(i) ELSE Child(i, sel[2] - 1)
              ELSE prev_main_item(i, ne, ex, infinite)
         ELSE prev_main_item(i, ne, ex, infinite)

----------------------------------------------------------------------------
(* Where the code can panic: an unsigned subtraction below zero or an       *)
(* unwrap of None. Vec::get is a checked access, and the additions          *)
(* (index + 1, j + 1) stay below a vector length or a child count.          *)

\* `num_elements - 1` (state.rs:139)
next_main_item_panics(index, n, infinite) == n < 1

\* next() without its early return on an empty table
next_panics_no_empty_check(sel, ne, ex, infinite) ==
    /\ sel # NoSelection
    /\ IF sel[1] < Len(ne) /\ is_expandedIn(ex, sel[1])
       THEN /\ Len(sel) = 2
            /\ sel[2] >= saturating_sub(ne[sel[1] + 1], 1)
            /\ next_main_item_panics(sel[1], Len(ne), infinite)
       ELSE next_main_item_panics(sel[1], Len(ne), infinite)

\* next(): `j.unwrap()` (state.rs:158) is reached only with a child selected, so
\* the calls of next_main_item are the places left
next_panics(sel, ne, ex, infinite) ==
    /\ ne # <<>>
    /\ sel # NoSelection
    /\ IF sel[1] < Len(ne) /\ is_expandedIn(ex, sel[1])
       THEN /\ Len(sel) = 2
            /\ sel[2] >= saturating_sub(ne[sel[1] + 1], 1)
            /\ next_main_item_panics(sel[1], Len(ne), infinite)
       ELSE next_main_item_panics(sel[1], Len(ne), infinite)

\* `index - 1` (state.rs:196) and `len - 1` (state.rs:202)
prev_main_item_panics(index, ne, ex, infinite) ==
    /\ ~(index = 0 /\ ~infinite)
    /\ LET prev_index == IF index = 0 THEN saturating_sub(Len(ne), 1) ELSE index - 1 IN
       \/ index # 0 /\ index < 1
       \/ /\ is_expandedIn(ex, prev_index)
          /\ prev_index < Len(ne)
          /\ ne[prev_index + 1] # 0
          /\ ne[prev_index + 1] < 1

\* previous(): `j - 1` (state.rs:221) and the calls of prev_main_item
previous_panics(sel, ne, ex, infinite) ==
    /\ ne # <<>>
    /\ sel # NoSelection
    /\ IF sel[1] < Len(ne) /\ Len(sel) = 2
       THEN sel[2] # 0 /\ sel[2] < 1
       ELSE prev_main_item_panics(sel[1], ne, ex, infinite)

----------------------------------------------------------------------------
(* Operations of ListState: each constrains the program state only; the     *)
(* specifications below add the history variables.                          *)

set_infinite_scrolling(flag) ==
    /\ infinite_scrolling' = flag
    /\ UNCHANGED <<selected, num_elements, expanded, view_state>>

\* select_child that resets the viewport offset on every call
select_child_always_resets(index) ==
    /\ selected' = index
    /\ view_state' = [view_state EXCEPT !.offset = 0]
    /\ UNCHANGED <<num_elements, expanded, infinite_scrolling>>

select_child(index) ==
    /\ selected' = index
    /\ view_state' = IF index = NoSelection
                     THEN [view_state EXCEPT !.offset = 0]
                     ELSE view_state
    /\ UNCHANGED <<num_elements, expanded, infinite_scrolling>>

select(index) ==
    /\ selected' = IF index = NoIndex THEN NoSelection ELSE Main(index[1])
    /\ view_state' = IF index = NoIndex
                     THEN [view_state EXCEPT !.offset = 0]
                     ELSE view_state
    /\ UNCHANGED <<num_elements, expanded, infinite_scrolling>>

\* collapse_all that leaves the child component of the selection
collapse_all_keeps_child ==
    /\ expanded' = <<>>
    /\ UNCHANGED <<selected, num_elements, infinite_scrolling, view_state>>

collapse_all ==
    /\ expanded' = <<>>
    /\ selected' = IF selected # NoSelection THEN Main(selected[1]) ELSE selected
    /\ UNCHANGED <<num_elements, infinite_scrolling, view_state>>

\* collapse_selected that collapses every item
collapse_selected_clears ==
    /\ IF selected # NoSelection
       THEN /\ expanded' = <<>>
            /\ selected' = Main(selected[1])
       ELSE UNCHANGED <<expanded, selected>>
    /\ UNCHANGED <<num_elements, infinite_scrolling, view_state>>

collapse_selected ==
    /\ IF selected # NoSelection
       THEN /\ expanded' = retain_other(expanded, selected[1])
            /\ selected' = Main(selected[1])
       ELSE UNCHANGED <<expanded, selected>>
    /\ UNCHANGED <<num_elements, infinite_scrolling, view_state>>

\* expand_all without the clear
expand_all_no_clear ==
    /\ expanded' = expanded \o range(Len(num_elements))
    /\ UNCHANGED <<selected, num_elements, infinite_scrolling, view_state>>

expand_all ==
    /\ expanded' = range(Len(num_elements))
    /\ UNCHANGED <<selected, num_elements, infinite_scrolling, view_state>>

\* expand_selected that forgets to push
expand_selected_no_push ==
    UNCHANGED <<expanded, selected, num_elements, infinite_scrolling, view_state>>

\* expand_selected without the is_expanded test
expand_selected_always_push ==
    /\ expanded' = IF selected # NoSelection
                   THEN Append(expanded, selected[1])
                   ELSE expanded
    /\ UNCHANGED <<selected, num_elements, infinite_scrolling, view_state>>

expand_selected ==
    /\ expanded' = IF selected # NoSelection /\ ~is_expanded(selected[1])
                   THEN Append(expanded, selected[1])
                   ELSE expanded
    /\ UNCHANGED <<selected, num_elements, infinite_scrolling, view_state>>

\* next without the early return on an empty table
next_no_empty_check ==
    select_child(next_selection(selected, num_elements, expanded, infinite_scrolling))

next ==
    IF num_elements = <<>>
    THEN UNCHANGED state
    ELSE select_child(next_selection(selected, num_elements, expanded, infinite_scrolling))

previous ==
    IF num_elements = <<>>
    THEN UNCHANGED state
    ELSE select_child(previous_selection(selected, num_elements, expanded, infinite_scrolling))

\* set_num_elements with the pruning test off by one (<= for <)
set_num_elements_off_by_one(counts) ==
    /\ expanded' = retain_below(expanded, Len(counts) + 1)
    /\ num_elements' = counts
    /\ UNCHANGED <<selected, infinite_scrolling, view_state>>

set_num_elements(counts) ==
    /\ expanded' = retain_below(expanded, Len(counts))
    /\ num_elements' = counts
    /\ UNCHANGED <<selected, infinite_scrolling, view_state>>

----------------------------------------------------------------------------
(* Spec: every run of the public operations from ListState::default(); the  *)
(* owning widget may replace the table and the wrap flag at any time.       *)

Default ==
    /\ selected = NoSelection
    /\ expanded = <<>>
    /\ num_elements = <<>>
    /\ infinite_scrolling = TRUE
    /\ view_state = ViewState(0, 0)

Init ==
    /\ Default
    /\ trace = <<>>
    /\ start = NoSelection

NoHistory == UNCHANGED <<trace, start>>

Next ==
    \/ \E b \in BOOLEAN : set_infinite_scrolling(b) /\ NoHistory
    \/ \E i \in ReachIndices : select(Some(i)) /\ NoHistory
    \/ select(NoIndex) /\ NoHistory
    \/ next /\ NoHistory
    \/ previous /\ NoHistory
    \/ expand_all /\ NoHistory
    \/ expand_selected /\ NoHistory
    \/ collapse_all /\ NoHistory
    \/ collapse_selected /\ NoHistory
    \/ \E counts \in ReachTables : set_num_elements(counts) /\ NoHistory

Spec == Init /\ [][Next]_vars

----------------------------------------------------------------------------
(* SpecRoundTrip: next() and then previous() from every valid selection of  *)
(* every non-empty table. start is the selection before, trace the calls.   *)

Did(op) == trace' = Append(trace, op) /\ UNCHANGED start

InitValid ==
    /\ num_elements \in NonEmptyTables
    /\ expanded \in Ascending(Len(num_elements))
    /\ infinite_scrolling \in BOOLEAN
    /\ view_state = ViewState(0, 0)
    /\ trace = <<>>

InitRoundTrip ==
    /\ InitValid
    /\ selected \in ValidSelections(num_elements, expanded)
    /\ start = selected

NextRoundTrip ==
    \/ trace = <<>> /\ next /\ Did("next")
    \/ trace = <<"next">> /\ previous /\ Did("previous")

SpecRoundTrip == InitRoundTrip /\ [][NextRoundTrip]_vars

\* next() had to leave the last main item: it is selected and is either not
\* expanded or selected at its last child
AtEnd(sel) ==
    /\ sel # NoSelection
    /\ sel[1] = Len(num_elements) - 1
    /\ \/ ~is_expanded(sel[1])
       \/ Len(sel) = 2 /\ sel[2] >= saturating_sub(num_elements[sel[1] + 1], 1)

\* C1 as stated: next(); previous() restores every valid selection, for both
\* values of the wrap flag.
C1_RoundTripAlways ==
    trace = <<"next", "previous">> => selected = start

\* C1 amended: next(); previous() restores every valid selection when wrap-around
\* is enabled, and when it is disabled unless next() was called at the end of the
\* list (the last main item selected, not expanded or at its last child).
C1_RoundTrip ==
    (trace = <<"next", "previous">> /\ (infinite_scrolling \/ ~AtEnd(start)))
        => selected = start

\* a round trip over the wrap: from the last child of the last main item and back
C1_Witness ==
    /\ trace = <<"next", "previous">>
    /\ infinite_scrolling
    /\ Len(start) = 2
    /\ AtEnd(start)
    /\ Len(num_elements) > 1
    /\ selected = start

----------------------------------------------------------------------------
(* SpecWalk: next() called over and over, or previous() called over and     *)
(* over, on a fixed table, from no selection or from a main item. trace     *)
(* holds the calls.                                                         *)

\* the positions next() can stand on: the main items and the children of the
\* expanded ones
RECURSIVE Positions(_, _)
Positions(ne, ex) ==
    IF ex = <<>> THEN Len(ne) ELSE ne[Head(ex) + 1] + Positions(ne, Tail(ex))

InitWalk ==
    /\ InitValid
    /\ selected \in {NoSelection} \cup {Main(i) : i \in 0..(Len(num_elements) - 1)}
    /\ start = selected

\* the walk may go on with op: it is not over, and has made no other call
Walking(op) ==
    /\ Len(trace) < Positions(num_elements, expanded) + 2
    /\ (trace \o <<op>>)[1] = op

NextWalk ==
    \/ Walking("next") /\ next /\ Did("next")
    \/ Walking("previous") /\ previous /\ Did("previous")

SpecWalk == InitWalk /\ [][NextWalk]_vars

\* the calls of next() made, and of previous()
Calls == IF trace # <<>> /\ trace[1] = "next" THEN Len(trace) ELSE 0
Backs == IF trace # <<>> /\ trace[1] = "previous" THEN Len(trace) ELSE 0
Items == Len(num_elements)

\* C2 as stated: from no selection with nothing expanded, N calls of next() end
\* at Main(0) with wrap-around, and without it at Main(N-1), where every further
\* call stays.
C2_WalkAsStated ==
    (start = NoSelection /\ expanded = <<>>) =>
        /\ (infinite_scrolling /\ Calls = Items) => selected = Main(0)
        /\ (~infinite_scrolling /\ Calls >= Items) => selected = Main(Items - 1)

\* C2 amended: from no selection with nothing expanded, N calls of next() end at
\* Main(N-1) for both values of the wrap flag (the first call selects Main(0));
\* one more call gives Main(0) with wrap-around, and without it every further
\* call stays at Main(N-1).
C2_Walk ==
    (start = NoSelection /\ expanded = <<>>) =>
        /\ Calls = Items => selected = Main(Items - 1)
        /\ (infinite_scrolling /\ Calls = Items + 1) => selected = Main(0)
        /\ (~infinite_scrolling /\ Calls >= Items) => selected = Main(Items - 1)

\* the walk over a table of several items has wrapped to Main(0)
C2_Witness ==
    /\ start = NoSelection
    /\ expanded = <<>>
    /\ infinite_scrolling
    /\ Items > 1
    /\ Calls = Items + 1
    /\ selected = Main(0)

\* C10: from Main(i) with i expanded and k > 0 children, the n-th call of next()
\* (n = 1..k) selects Child(i, n-1), and call k+1 selects the following main
\* item: Main(i+1), or at the last index Main(0) with wrap-around and Main(i)
\* without.
C10_ChildrenThenNextMain ==
    (/\ Len(start) = 1
     /\ is_expanded(start[1])
     /\ num_elements[start[1] + 1] > 0) =>
        LET i == start[1]
            k == num_elements[i + 1]
        IN  /\ (Calls >= 1 /\ Calls <= k) => selected = Child(i, Calls - 1)
            /\ Calls = k + 1 =>
                   selected = IF i < Items - 1 THEN Main(i + 1)
                              ELSE IF infinite_scrolling THEN Main(0) ELSE Main(i)

\* all MaxChildren children of an item that is not the last were visited and the
\* walk stands on the next main item
C10_Witness ==
    /\ Len(start) = 1
    /\ is_expanded(start[1])
    /\ num_elements[start[1] + 1] = MaxChildren
    /\ start[1] < Items - 1
    /\ Calls = MaxChildren + 1
    /\ selected = Main(start[1] + 1)

\* C11: previous() from Main(i) that moves to the main item p (i-1, or the last
\* index when i = 0 and wrap-around is enabled) selects p's last child
\* Child(p, count(p)-1) when p is expanded and has children, and Main(p) when p
\* is expanded but childless or not expanded. With counts [2,0,1], wrap-around
\* and item 2 expanded, previous() from Main(0) gives Child(2,0).
C11_PreviousEntersLastChild ==
    (/\ trace = <<"previous">>
     /\ Len(start) = 1
     /\ start[1] > 0 \/ infinite_scrolling) =>
        LET p == IF start[1] = 0 THEN Items - 1 ELSE start[1] - 1
            count == num_elements[p + 1]
        IN  selected = IF is_expanded(p) /\ count > 0
                       THEN Child(p, count - 1)
                       ELSE Main(p)

\* the case the claim names: [2,0,1], item 2 expanded, from Main(0) over the wrap
C11_Witness ==
    /\ trace = <<"previous">>
    /\ num_elements = <<2, 0, 1>>
    /\ expanded = <<2>>
    /\ infinite_scrolling
    /\ start = Main(0)
    /\ selected = Child(2, 0)

\* the positions of the table in increasing (main, child) order: each main item,
\* followed by its children when it is expanded
RECURSIVE Order(_, _, _)
Order(ne, ex, i) ==
    IF i >= Len(ne) THEN <<>>
    ELSE <<Main(i)>>
            \o (IF is_expandedIn(ex, i) THEN [j \in 1..ne[i + 1] |-> Child(i, j - 1)]
                ELSE <<>>)
            \o Order(ne, ex, i + 1)

Cycle == Order(num_elements, expanded, 0)

\* C20: with wrap-around, a fixed non-empty table and every expanded item having
\* a child, the n-th next() from Main(0) stands on position n of the increasing
\* (main, child) order, so every position is visited once before the walk is
\* back at Main(0) after as many calls as there are positions; the n-th
\* previous() stands on position -n of that order, the reverse walk.
C20_FullCycle ==
    (/\ infinite_scrolling
     /\ start = Main(0)
     /\ \A k \in 1..Len(expanded) : num_elements[expanded[k] + 1] > 0) =>
        /\ Len(Cycle) = Positions(num_elements, expanded)
        /\ \A m, n \in 1..Len(Cycle) : Cycle[m] = Cycle[n] => m = n
        /\ Calls > 0 => selected = Cycle[(Calls % Len(Cycle)) + 1]
        /\ Backs > 0 =>
               selected = Cycle[((2 * Len(Cycle) - Backs) % Len(Cycle)) + 1]

\* a backward walk over a table with two expanded items is back at Main(0)
C20_Witness ==
    /\ infinite_scrolling
    /\ start = Main(0)
    /\ Len(expanded) > 1
    /\ \A k \in 1..Len(expanded) : num_elements[expanded[k] + 1] > 0
    /\ Backs = Len(Cycle)
    /\ selected = Main(0)

----------------------------------------------------------------------------
(* SpecScenario: the calls of the spec's concrete scenario, on every table, *)
(* from no selection with nothing expanded.                                 *)

Script == <<"next", "expand_selected", "next", "next", "next", "next", "next">>

InitScenario ==
    /\ InitValid
    /\ expanded = <<>>
    /\ selected = NoSelection
    /\ start = selected

\* the call the script makes next, "" at its end
Due == IF Len(trace) < Len(Script) THEN Script[Len(trace) + 1] ELSE ""

NextScenario ==
    \/ Due = "next" /\ next /\ Did("next")
    \/ Due = "expand_selected" /\ expand_selected /\ Did("expand_selected")

SpecScenario == InitScenario /\ [][NextScenario]_vars

ScenarioSelections ==
    <<Main(0), Main(0), Child(0, 0), Child(0, 1), Main(1), Main(2), Main(0)>>

\* C9: with child counts [2, 0, 1] and wrap-around, the calls of Script give the
\* selections Main(0), Main(0), Child(0,0), Child(0,1), Main(1), Main(2), Main(0).
C9_Scenario ==
    (num_elements = <<2, 0, 1>> /\ infinite_scrolling /\ trace # <<>>) =>
        selected = ScenarioSelections[Len(trace)]

\* the scenario has run to its end
C9_Witness ==
    /\ num_elements = <<2, 0, 1>>
    /\ infinite_scrolling
    /\ trace = Script
    /\ expanded = <<0>>
    /\ selected = Main(0)

----------------------------------------------------------------------------
(* SpecStep: one operation applied to a state the machine can be in: any    *)
(* table, any expanded items, any selection (valid or stale) and any        *)
(* viewport. start is the selection before, trace the operation (followed   *)
(* by the new table for set_num_elements). expand_selected may be called a  *)
(* second time, or be followed by expand_all.                               *)

\* the selections select_child can set, stale ones included
AnySelections ==
    {NoSelection} \cup {Main(i) : i \in ReachIndices}
        \cup {Child(i, j) : i \in ReachIndices, j \in 0..ReachChildren}

InitStep ==
    /\ num_elements \in ReachTables
    /\ expanded \in Ascending(Len(num_elements))
    /\ infinite_scrolling \in BOOLEAN
    /\ view_state \in ViewStates
    /\ selected \in AnySelections
    /\ trace = <<>>
    /\ start = selected

Fresh == trace = <<>>

NextStep ==
    \/ Fresh /\ \E i \in ReachIndices : select(Some(i)) /\ Did("select")
    \/ Fresh /\ select(NoIndex) /\ Did("select")
    \/ Fresh /\ select_child(NoSelection) /\ Did("select_child")
    \/ Fresh /\ next /\ Did("next")
    \/ Fresh /\ previous /\ Did("previous")
    \/ Fresh /\ expand_all /\ Did("expand_all")
    \/ Fresh /\ expand_selected /\ Did("expand_selected")
    \/ Fresh /\ collapse_all /\ Did("collapse_all")
    \/ Fresh /\ collapse_selected /\ Did("collapse_selected")
    \/ Fresh /\ \E counts \in ReachTables :
                    /\ set_num_elements(counts)
                    /\ trace' = <<"set_num_elements", counts>>
                    /\ UNCHANGED start
    \/ trace = <<"expand_selected">> /\ expand_selected /\ Did("expand_selected")
    \/ trace = <<"expand_selected">> /\ expand_all /\ Did("expand_all")

SpecStep == InitStep /\ [][NextStep]_vars

\* C5: expanding a childless main item does not change navigation: what next()
\* and previous() select is what they select with that item taken out of the
\* expanded vector.
C5_ChildlessExpansionIsNoOp ==
    num_elements # <<>> =>
        \A i \in 0..(Items - 1) :
            num_elements[i + 1] = 0 =>
                LET without == retain_other(expanded, i)
                IN  /\ trace = <<"next">> =>
                        selected = next_selection(start, num_elements, without,
                                                  infinite_scrolling)
                    /\ trace = <<"previous">> =>
                        selected = previous_selection(start, num_elements, without,
                                                      infinite_scrolling)

\* C6: clearing the selection, by select(None) or select_child(None), leaves the
\* viewport at offset 0 and truncation 0.
C6_ClearResetsViewport ==
    ((trace = <<"select">> \/ trace = <<"select_child">>) /\ selected = NoSelection)
        => view_state = ViewState(0, 0)

\* C8 as stated: without wrap-around on a non-empty list, previous() at Main(0)
\* stays at Main(0), and next() with the last main index selected leaves the
\* selection unchanged whatever is expanded (read here for the valid selections
\* of a last item that has children).
C8_ClampAsStated ==
    (~infinite_scrolling /\ num_elements # <<>>) =>
        /\ (trace = <<"previous">> /\ start = Main(0)) => selected = Main(0)
        /\ (/\ trace = <<"next">>
            /\ start \in ValidSelections(num_elements, expanded)
            /\ start[1] = Items - 1
            /\ num_elements[Items] > 0) => selected = start

\* C8 amended: without wrap-around on a non-empty list, previous() at Main(0)
\* stays at Main(0); next() with the last main index selected keeps the main
\* index, and leaves the selection unchanged when it is Main(N-1) and item N-1
\* is not expanded (when it is expanded, next() moves among its children).
C8_Clamp ==
    (~infinite_scrolling /\ num_elements # <<>>) =>
        /\ (trace = <<"previous">> /\ start = Main(0)) => selected = Main(0)
        /\ (trace = <<"next">> /\ start # NoSelection /\ start[1] = Items - 1) =>
               /\ selected # NoSelection
               /\ selected[1] = Items - 1
               /\ (Len(start) = 1 /\ ~is_expanded(start[1])) => selected = start

\* previous() was called at Main(0) of a list of several items, the last of them
\* expanded, and clamped
C8_Witness ==
    /\ ~infinite_scrolling
    /\ Items > 1
    /\ is_expanded(Items - 1)
    /\ num_elements[Items] > 0
    /\ trace = <<"previous">>
    /\ start = Main(0)
    /\ selected = Main(0)

\* the indices a vector holds, and whether it holds none twice
Elems(v) == {v[k] : k \in 1..Len(v)}
NoDup(v) == \A m, n \in 1..Len(v) : v[m] = v[n] => m = n

\* C13: collapse_all() leaves the expanded vector empty and turns a present
\* selection into Main(i) of the same main index; an absent one stays absent.
C13_CollapseAll ==
    trace = <<"collapse_all">> =>
        /\ expanded = <<>>
        /\ selected = IF start = NoSelection THEN NoSelection ELSE Main(start[1])

\* collapse_all() cleared the child of a selection
C13_Witness ==
    /\ trace = <<"collapse_all">>
    /\ Len(start) = 2
    /\ Items = ReachItems
    /\ expanded = <<>>
    /\ selected = Main(start[1])

\* C14: set_num_elements(counts) removes from the expanded vector exactly the
\* indices >= len(counts), keeps the others, makes counts the table and leaves
\* the selection, the wrap flag and the viewport unchanged.
C14_SetNumElements ==
    [][\A counts \in ReachTables :
          trace' = <<"set_num_elements", counts>> =>
              /\ num_elements' = counts
              /\ Elems(expanded') = {x \in Elems(expanded) : x < Len(counts)}
              /\ Len(expanded') = Cardinality(Elems(expanded'))
              /\ selected' = selected
              /\ infinite_scrolling' = infinite_scrolling
              /\ view_state' = view_state]_vars

\* a table of one item replaced a longer one: item 0 stays expanded, a child
\* selection of an item that is gone and the written viewport are kept
C14_Witness ==
    /\ Len(trace) = 2
    /\ trace[1] = "set_num_elements"
    /\ num_elements = trace[2]
    /\ Items = 1
    /\ expanded = <<0>>
    /\ Len(start) = 2
    /\ start[1] >= 1
    /\ selected = start
    /\ view_state = ViewState(MaxView, MaxView)

\* C15: on an empty table next() and previous() change nothing: selection,
\* expanded vector, wrap flag and viewport stay as they are.
C15_EmptyTableNoOp ==
    [][(num_elements = <<>> /\ (trace' = <<"next">> \/ trace' = <<"previous">>))
          => UNCHANGED state]_vars

\* next() was called on an empty table with a stale child selection and a
\* written viewport
C15_Witness ==
    /\ trace = <<"next">>
    /\ num_elements = <<>>
    /\ Len(start) = 2
    /\ selected = start
    /\ view_state = ViewState(MaxView, MaxView)

\* C16: on a non-empty table with no selection, next() and previous() select
\* Main(0), whatever the wrap flag and whether or not item 0 is expanded.
C16_FirstSelection ==
    (/\ num_elements # <<>>
     /\ start = NoSelection
     /\ trace = <<"next">> \/ trace = <<"previous">>) => selected = Main(0)

\* previous() from no selection, without wrap-around, item 0 expanded
C16_Witness ==
    /\ trace = <<"previous">>
    /\ start = NoSelection
    /\ Items = ReachItems
    /\ is_expanded(0)
    /\ ~infinite_scrolling
    /\ selected = Main(0)

\* C17: expand_selected() adds the selected main index to the expanded vector
\* only if it is not there, so no step leaves an index in it twice; with no
\* selection it changes nothing; it never changes the selection; a second call
\* changes nothing.
C17_ExpandSelected ==
    [][/\ NoDup(expanded) => NoDup(expanded')
       /\ trace' = <<"expand_selected">> =>
              /\ selected' = selected
              /\ selected = NoSelection => UNCHANGED state
              /\ selected # NoSelection =>
                     /\ Elems(expanded') = Elems(expanded) \cup {selected[1]}
                     /\ is_expanded(selected[1]) => expanded' = expanded
       /\ trace' = <<"expand_selected", "expand_selected">> => UNCHANGED state]_vars

\* expand_selected() was called twice on an item that is now expanded
C17_Witness ==
    /\ trace = <<"expand_selected", "expand_selected">>
    /\ Len(start) = 2
    /\ selected = start
    /\ is_expanded(start[1])
    /\ Len(expanded) = ReachItems

\* C18 as stated: collapse_selected() leaves the whole state unchanged when
\* nothing is selected or the selected main index is not expanded (here for
\* selections that name an item, and a child, of the table).
C18_UnchangedAsStated ==
    [][(/\ trace' = <<"collapse_selected">>
        /\ selected # NoSelection => selected[1] < Items
        /\ Len(selected) = 2 => selected[2] < num_elements[selected[1] + 1]
        /\ selected = NoSelection \/ ~is_expanded(selected[1]))
          => UNCHANGED state]_vars

\* C18 amended: collapse_selected() removes only the selected main index from
\* the expanded vector and turns the selection into Main(i) of the same main
\* index; table, wrap flag and viewport stay. With nothing selected the whole
\* state is unchanged; with the selected main index not expanded the expanded
\* vector is unchanged, and the whole state is unless the selection had a child
\* component, which is cleared.
C18_CollapseSelected ==
    [][trace' = <<"collapse_selected">> =>
          IF selected = NoSelection THEN UNCHANGED state
          ELSE /\ Elems(expanded') = Elems(expanded) \ {selected[1]}
               /\ NoDup(expanded')
               /\ selected' = Main(selected[1])
               /\ UNCHANGED <<num_elements, infinite_scrolling, view_state>>
               /\ ~is_expanded(selected[1]) => expanded' = expanded
               /\ (~is_expanded(selected[1]) /\ Len(selected) = 1)
                      => UNCHANGED state]_vars

\* the item of a child selection was collapsed, every other item stays expanded
C18_Witness ==
    /\ trace = <<"collapse_selected">>
    /\ Len(start) = 2
    /\ start[1] < Items
    /\ selected = Main(start[1])
    /\ Elems(expanded) = (0..(Items - 1)) \ {start[1]}
    /\ Items = ReachItems

\* expand_all() was the last call: the only one, or the one that followed an
\* expand_selected(), which can leave the vector out of order or holding an
\* index that is not below the item count
AfterExpandAll ==
    \/ trace = <<"expand_all">>
    \/ Len(trace) = 2 /\ trace[1] = "expand_selected" /\ trace[2] = "expand_all"

\* C19: after expand_all() the expanded vector holds exactly the indices
\* 0..N-1, each once, whatever it held before, so is_expanded(i) holds iff i
\* is below the item count; the selection is unchanged.
C19_ExpandAll ==
    AfterExpandAll =>
        /\ Elems(expanded) = 0..(Items - 1)
        /\ Len(expanded) = Items
        /\ \A i \in 0..(ReachItems + 1) : is_expanded(i) <=> i < Items
        /\ selected = start

\* expand_all() after expand_selected() had expanded an item that the table
\* does not have
C19_Witness ==
    /\ trace = <<"expand_selected", "expand_all">>
    /\ Items = ReachItems
    /\ start = Main(ReachItems)
    /\ selected = start
    /\ expanded = range(Items)

\* C21: with wrap-around disabled and a present selection on a non-empty
\* table, next() never decreases the selected main index and previous() never
\* increases it.
C21_MainIndexMonotone ==
    (~infinite_scrolling /\ start # NoSelection /\ num_elements # <<>>) =>
        /\ trace = <<"next">> => selected[1] >= start[1]
        /\ trace = <<"previous">> => selected[1] <= start[1]

\* next() left the last child of an expanded item for the next main item
C21_Witness ==
    /\ trace = <<"next">>
    /\ ~infinite_scrolling
    /\ Len(start) = 2
    /\ is_expanded(start[1])
    /\ selected = Main(start[1] + 1)
    /\ selected[1] < Items

\* C23: next() and previous() change only the selection: expanded vector,
\* table, wrap flag and viewport (offset and truncation) are after the call
\* what they were before, in every state.
C23_NavigationFrame ==
    [][(trace' = <<"next">> \/ trace' = <<"previous">>) =>
          UNCHANGED <<num_elements, expanded, infinite_scrolling, view_state>>]_vars

\* previous() moved the selection with items expanded and a written viewport
C23_Witness ==
    /\ trace = <<"previous">>
    /\ selected # start
    /\ expanded # <<>>
    /\ view_state = ViewState(MaxView, MaxView)

----------------------------------------------------------------------------
(* SpecApi: every run of every operation from ListState::default(),         *)
(* select_child called directly included.                                   *)

NextApi ==
    \/ Next
    \/ \E s \in AnySelections : select_child(s) /\ NoHistory

SpecApi == Init /\ [][NextApi]_vars

\* C12: in no reachable state does an operation panic: next() and previous()
\* reach none of their subtractions with an operand that underflows, whatever
\* stale selection they find; the other operations and the queries hold no
\* subtraction, unwrap or unchecked index.
C12_NoPanic ==
    /\ ~next_panics(selected, num_elements, expanded, infinite_scrolling)
    /\ ~previous_panics(selected, num_elements, expanded, infinite_scrolling)

\* a child selection whose main index is beyond a non-empty table, and one whose
\* child index is beyond the child count
C12_Witness ==
    /\ num_elements # <<>>
    /\ Len(selected) = 2
    /\ \/ selected[1] >= Len(num_elements)
       \/ selected[1] < Len(num_elements) /\ selected[2] >= num_elements[selected[1] + 1]

----------------------------------------------------------------------------
(* Invariants of Spec                                                       *)

\* C3: every index in the expanded vector is smaller than the number of main
\* items.
C3_ExpandedInRange ==
    \A k \in 1..Len(expanded) : expanded[k] < Len(num_elements)

\* C22: without a direct select_child, a selection with a child component
\* always has its main index in the expanded vector.
C22_ChildOfExpanded ==
    Len(selected) = 2 => is_expanded(selected[1])

----------------------------------------------------------------------------
(* SpecSynced: set_num_elements once on the default state, then navigation, *)
(* expansion and select(Some(i)) with i below the item count.               *)

Synced == trace # <<>>

NextSynced ==
    \/ Fresh /\ \E counts \in Tables : set_num_elements(counts) /\ Did("set_num_elements")
    \/ Synced /\ \E b \in BOOLEAN : set_infinite_scrolling(b) /\ NoHistory
    \/ Synced /\ \E i \in 0..(Len(num_elements) - 1) : select(Some(i)) /\ NoHistory
    \/ Synced /\ next /\ NoHistory
    \/ Synced /\ previous /\ NoHistory
    \/ Synced /\ expand_all /\ NoHistory
    \/ Synced /\ expand_selected /\ NoHistory
    \/ Synced /\ collapse_all /\ NoHistory
    \/ Synced /\ collapse_selected /\ NoHistory

SpecSynced == Init /\ [][NextSynced]_vars

InRange(sel, ne) ==
    sel # NoSelection =>
        /\ sel[1] < Len(ne)
        /\ Len(sel) = 2 => sel[2] < ne[sel[1] + 1]

\* C4: after the sync a present selection has its main index below the item
\* count and its child index, if any, below the child count of that item.
C4_SelectionInRange ==
    trace # <<>> => InRange(selected, num_elements)

----------------------------------------------------------------------------
(* SpecResync: the owning widget replaces the table of a consistent state   *)
(* by a non-empty one, then one navigation call follows.                    *)

InitResync ==
    /\ num_elements \in ReachTables
    /\ expanded \in Ascending(Len(num_elements))
    /\ infinite_scrolling \in BOOLEAN
    /\ view_state = ViewState(0, 0)
    /\ selected \in ValidSelections(num_elements, expanded)
    /\ trace = <<>>
    /\ start = selected

NextResync ==
    \/ Fresh /\ \E counts \in ReachTables \ {<<>>} :
                    set_num_elements(counts) /\ Did("set_num_elements")
    \/ trace = <<"set_num_elements">> /\ next /\ Did("next")
    \/ trace = <<"set_num_elements">> /\ previous /\ Did("previous")

SpecResync == InitResync /\ [][NextResync]_vars

\* C7: when the new table left the selection out of range, one next() or
\* previous() brings it back in range.
C7_Reconverges ==
    (Len(trace) = 2 /\ ~InRange(start, num_elements)) => InRange(selected, num_elements)

====
